---- MODULE Spec2Model ----
(***************************************************************************)
(* The three conversion scripts of the repository as one state machine.    *)
(*                                                                         *)
(*   src/pdf_to_word.py            script "pdf_to_word"                    *)
(*   src/functions/pdf_to_word.py  script "functions_pdf_to_word"          *)
(*   src/functions/word_to_pdf.py  script "word_to_pdf"                    *)
(*                                                                         *)
(* A state is the filesystem (files and directories) together with one     *)
(* record per running process: its script, argv, program position, the     *)
(* pending exception, the converter object, the operations it has          *)
(* performed, the lines it has printed and its exit code.  Paths are       *)
(* sequences of one-character strings so that os.path.dirname,             *)
(* os.path.basename, os.path.join and str.replace are computed as Python   *)
(* computes them.                                                          *)
(***************************************************************************)
EXTENDS Integers, Sequences, FiniteSets, TLC

VARIABLES fs, dirs, proc, fs0, dirs0

vars == <<fs, dirs, proc, fs0, dirs0>>

(***************************************************************************)
(* Bounds and program constants                                            *)
(***************************************************************************)
\* argv (after the program name) has 0..MaxArgc entries
MaxArgc == 3

\* subprocess.run(..., timeout=240)
SubprocessTimeout == 240

\* num_pages = 10  (placeholder page count of functions/pdf_to_word.py)
num_pages == 10

(***************************************************************************)
(* Paths                                                                   *)
(***************************************************************************)
libreoffice_path ==
    <<"/","u","s","r","/","l","i","b","/","l","i","b","r","e","o","f","f","i","c","e",
      "/","p","r","o","g","r","a","m","/","s","o","f","f","i","c","e">>

DotDocx == <<".","d","o","c","x">>
DotPdf  == <<".","p","d","f">>

\* Word documents given to word_to_pdf
DocxI == <<"/","i","/","a",".","d","o","c","x">>
DocxJ == <<"/","j","/","a",".","d","o","c","x">>
DocxC == <<"/","i","/","c",".","d","o","c","x">>
DocI  == <<"/","i","/","a",".","d","o","c">>
DocO  == <<"/","o","/","b",".","d","o","c">>
\* PDF outputs asked of word_to_pdf
OutR  == <<"/","o","/","r",".","p","d","f">>
OutS  == <<"/","o","/","s",".","p","d","f">>
OutA  == <<"/","o","/","a",".","p","d","f">>
\* PDF given to the pdf_to_word scripts, and the documents asked of them
PdfI  == <<"/","i","/","d",".","p","d","f">>
WordR == <<"/","o","/","r",".","d","o","c","x">>
WordN == <<"/","n","/","r",".","d","o","c","x">>

DirI == <<"/","i">>
DirJ == <<"/","j">>
DirO == <<"/","o">>

Scripts == {"pdf_to_word", "functions_pdf_to_word", "word_to_pdf"}

InputsOf(script) ==
    IF script = "word_to_pdf" THEN {DocxI, DocxJ, DocI, DocO} ELSE {PdfI}

\* the concurrent runs convert .docx documents only
ConcInputs == {DocxI, DocxJ, DocxC}

OutputsOf(script) ==
    IF script = "word_to_pdf" THEN {OutR, OutS, OutA} ELSE {WordR, WordN}

\* files that may lie around from earlier runs
StalePaths == {OutR, OutA, WordR}

(***************************************************************************)
(* Python string and os.path functions                                     *)
(***************************************************************************)
\* s.rfind(ch) + 1 : the 1-based index of the last ch in s, 0 when absent
rfind(s, ch) ==
    LET I == {i \in 1..Len(s) : s[i] = ch}
    IN  IF I = {} THEN 0 ELSE CHOOSE i \in I : \A j \in I : j <= i

RECURSIVE rstrip(_, _)
rstrip(s, ch) ==
    IF s # <<>> /\ s[Len(s)] = ch THEN rstrip(SubSeq(s, 1, Len(s) - 1), ch) ELSE s

\* posixpath.dirname
dirname(p) ==
    LET head == SubSeq(p, 1, rfind(p, "/"))
    IN  IF head # <<>> /\ (\E k \in 1..Len(head) : head[k] # "/")
        THEN rstrip(head, "/")
        ELSE head

\* posixpath.basename
basename(p) == SubSeq(p, rfind(p, "/") + 1, Len(p))

\* posixpath.join of two components
join(a, b) ==
    IF b # <<>> /\ b[1] = "/" THEN b
    ELSE IF a = <<>> \/ a[Len(a)] = "/" THEN a \o b
    ELSE a \o <<"/">> \o b

\* str.replace(old, new): every non-overlapping occurrence, left to right
RECURSIVE replace(_, _, _)
replace(s, old, new) ==
    IF Len(s) < Len(old) THEN s
    ELSE IF SubSeq(s, 1, Len(old)) = old
         THEN new \o replace(SubSeq(s, Len(old) + 1, Len(s)), old, new)
         ELSE <<s[1]>> \o replace(Tail(s), old, new)

\* os.path.exists
exists(f, d, p) == p \in DOMAIN f \/ p \in d

(***************************************************************************)
(* File contents and filesystem operations                                 *)
(***************************************************************************)
Original(p)   == [kind |-> "original",   of |-> p]
Generated(in) == [kind |-> "generated",  of |-> in]
Stale(p)      == [kind |-> "stale",      of |-> p]
Executable(p) == [kind |-> "executable", of |-> p]

\* the file written at path p with content c
write(f, p, c) == (p :> c) @@ f

\* os.rename(src, dst): dst is replaced, src is gone
rename(f, src, dst) ==
    [q \in (DOMAIN f \ {src}) \cup {dst} |-> IF q = dst THEN f[src] ELSE f[q]]

(***************************************************************************)
(* Python's exception classes: each class and its base                     *)
(***************************************************************************)
ExceptionBase ==
    [ TimeoutExpired  |-> "SubprocessError",
      SubprocessError |-> "Exception",
      OSError         |-> "Exception",
      LibraryError    |-> "Exception",
      Exception       |-> "BaseException" ]

RECURSIVE issubclass(_, _)
issubclass(k, c) ==
    \/ k = c
    \/ k \in DOMAIN ExceptionBase /\ issubclass(ExceptionBase[k], c)

(***************************************************************************)
(* The process record                                                      *)
(***************************************************************************)
NewProc(script, argv) ==
    [ script     |-> script,
      argv       |-> argv,        \* sys.argv[1:]
      pc         |-> "main",
      input      |-> <<>>,        \* pdf_path / input_path
      output     |-> <<>>,        \* docx_path / output_path
      exc        |-> "none",      \* class of the exception being raised
      returncode |-> -1,          \* result.returncode of the subprocess
      wrote      |-> FALSE,       \* the library or tool wrote its output file
      cv         |-> "none",      \* the Converter: none, open, closed
      ops        |-> <<>>,        \* filesystem, library and subprocess calls made
      out        |-> <<>>,        \* lines printed or logged
      pages      |-> 0,           \* "(page/num_pages) Page" lines printed
      exit       |-> -1,          \* the process exit code
      uncaught   |-> FALSE ]      \* ended by an exception no handler caught

Emit(r, m)   == [r EXCEPT !.out = Append(@, m)]
Did(r, op)   == [r EXCEPT !.ops = Append(@, op)]
Goto(r, l)   == [r EXCEPT !.pc = l]
Exit(r, c)   == [r EXCEPT !.pc = "done", !.exit = c]
Raise(r, k)  == [r EXCEPT !.pc = "except", !.exc = k]

\* an exception reaching the top of the script: traceback, exit code 1
Crash(r)     == [Exit(Emit(r, "traceback"), 1) EXCEPT !.uncaught = TRUE]

\* the argument check written as "len(sys.argv) < 3": extra arguments pass
ArgcOK_AtLeastTwo(argv) == Len(argv) >= 2

\* len(sys.argv) != 3 is false: exactly two arguments after the program name
ArgcOK(argv) == Len(argv) = 2

\* argv of length n built from an input and an output path
Argv(n, in, out) == [k \in 1..n |-> IF k % 2 = 1 THEN in ELSE out]

InitialFiles(in, inExists, soffice, S) ==
    LET D == S \cup (IF inExists THEN {in} ELSE {})
               \cup (IF soffice THEN {libreoffice_path} ELSE {})
    IN  [q \in D |-> IF q = libreoffice_path THEN Executable(q)
                     ELSE IF q = in THEN Original(q)
                     ELSE Stale(q)]

\* one run of any of the three scripts
Init ==
    \E script \in Scripts, n \in 0..MaxArgc, inExists \in BOOLEAN,
       soffice \in BOOLEAN, S \in SUBSET StalePaths :
      \E in \in InputsOf(script), out \in OutputsOf(script) :
        /\ fs = InitialFiles(in, inExists, soffice, S)
        /\ dirs = {DirI, DirJ, DirO}
        /\ proc = [p \in {1} |-> NewProc(script, Argv(n, in, out))]
        /\ fs0 = fs
        /\ dirs0 = dirs

\* two concurrent word_to_pdf runs on distinct inputs and distinct outputs
InitConc ==
    \E in1 \in ConcInputs, in2 \in ConcInputs,
       out1 \in OutputsOf("word_to_pdf"), out2 \in OutputsOf("word_to_pdf") :
        /\ in1 # in2
        /\ out1 # out2
        /\ fs = (in2 :> Original(in2)) @@ InitialFiles(in1, TRUE, TRUE, {})
        /\ dirs = {DirI, DirJ, DirO}
        /\ proc = [p \in {1, 2} |->
                     IF p = 1 THEN NewProc("word_to_pdf", <<in1, out1>>)
                              ELSE NewProc("word_to_pdf", <<in2, out2>>)]
        /\ fs0 = fs
        /\ dirs0 = dirs

Set(p, r) == proc' = [proc EXCEPT ![p] = r]

At(p, script, l) == proc[p].script = script /\ proc[p].pc = l

(***************************************************************************)
(* The collaborators: the pdf2docx Converter and the soffice executable    *)
(***************************************************************************)
\* Converter(pdf_path) binds to the file: it can succeed only if the file exists
ConverterOpens(f, d, path, ok) == ok => exists(f, d, path)

\* cv.convert(docx_path): writes the document, returns without writing, or
\* raises; saving into a directory that does not exist raises
ConvertOutcomes(d, docx_path) ==
    IF dirname(docx_path) \in d THEN {"wrote", "nothing", "raise"} ELSE {"raise"}

\* soffice names its output after the input's base name, its extension
\* replaced by .pdf, in the --outdir directory
soffice_output(input_path, outdir) ==
    LET b    == basename(input_path)
        dot  == rfind(b, ".")
        stem == IF dot > 1 THEN SubSeq(b, 1, dot - 1) ELSE b
    IN  join(outdir, stem \o DotPdf)

(***************************************************************************)
(* src/pdf_to_word.py                                                      *)
(***************************************************************************)
\* main(): the argument check, lines 72-77
main(p) ==
    /\ At(p, "pdf_to_word", "main")
    /\ LET r == proc[p] IN
         IF ~ArgcOK(r.argv)
         THEN Set(p, Exit(Emit(r, "usage"), 1))
         ELSE Set(p, [r EXCEPT !.input = r.argv[1], !.output = r.argv[2],
                               !.pc = "check_input"])
    /\ UNCHANGED <<fs, dirs, fs0, dirs0>>

\* lines 32-34: the input must exist, else return False (exit 1)
cpw_CheckInput(p) ==
    /\ At(p, "pdf_to_word", "check_input")
    /\ LET r == Did(proc[p], "exists") IN
         IF ~exists(fs, dirs, r.input)
         THEN Set(p, Exit(Emit(r, "not_found"), 1))
         ELSE Set(p, Goto(r, "makedirs"))
    /\ UNCHANGED <<fs, dirs, fs0, dirs0>>

\* lines 37-43: create the output directory if it does not exist
cpw_MakeDirs(p) ==
    /\ At(p, "pdf_to_word", "makedirs")
    /\ LET r          == Did(proc[p], "exists")
           output_dir == dirname(r.output)
       IN  IF output_dir # <<>> /\ ~exists(fs, dirs, output_dir)
           THEN /\ dirs' = dirs \cup {output_dir}
                /\ Set(p, Goto(Emit(Did(r, "makedirs"), "stage1"), "open"))
           ELSE /\ dirs' = dirs
                /\ Set(p, Goto(Emit(r, "stage1"), "open"))
    /\ UNCHANGED <<fs, fs0, dirs0>>

\* line 46: cv = Converter(pdf_path)
cpw_Open(p) ==
    /\ At(p, "pdf_to_word", "open")
    /\ \E ok \in BOOLEAN :
         /\ ConverterOpens(fs, dirs, proc[p].input, ok)
         /\ LET r == Did(proc[p], "open") IN
              IF ok THEN Set(p, [r EXCEPT !.cv = "open", !.pc = "get_pages"])
                    ELSE Set(p, Raise(r, "LibraryError"))
    /\ UNCHANGED <<fs, dirs, fs0, dirs0>>

\* lines 47-49: total_pages = cv.get_pages()
cpw_GetPages(p) ==
    /\ At(p, "pdf_to_word", "get_pages")
    /\ \E ok \in BOOLEAN :
         LET r == Did(proc[p], "get_pages") IN
           IF ok THEN Set(p, Goto(Emit(Emit(r, "stage2"), "pages"), "convert"))
                 ELSE Set(p, Raise(r, "LibraryError"))
    /\ UNCHANGED <<fs, dirs, fs0, dirs0>>

\* lines 52-53: cv.convert(docx_path, start=0, end=None)
cpw_Convert(p) ==
    /\ At(p, "pdf_to_word", "convert")
    /\ \E o \in ConvertOutcomes(dirs, proc[p].output) :
         LET r == Did(Emit(proc[p], "stage3"), "convert") IN
           CASE o = "wrote" ->
                  /\ fs' = write(fs, r.output, Generated(r.input))
                  /\ Set(p, [r EXCEPT !.wrote = TRUE, !.pc = "close"])
             [] o = "nothing" ->
                  /\ fs' = fs
                  /\ Set(p, Goto(r, "close"))
             [] o = "raise" ->
                  /\ fs' = fs
                  /\ Set(p, Raise(r, "LibraryError"))
    /\ UNCHANGED <<dirs, fs0, dirs0>>

\* lines 54-56: cv.close()
cpw_Close(p) ==
    /\ At(p, "pdf_to_word", "close")
    /\ Set(p, [Emit(Did(proc[p], "close"), "stage4")
                 EXCEPT !.cv = "closed", !.pc = "check_output"])
    /\ UNCHANGED <<fs, dirs, fs0, dirs0>>

\* lines 59-64 and 80-83: success only if the output file exists
cpw_CheckOutput(p) ==
    /\ At(p, "pdf_to_word", "check_output")
    /\ LET r == Did(proc[p], "exists") IN
         IF exists(fs, dirs, r.output)
         THEN Set(p, Exit(Emit(r, "completed"), 0))
         ELSE Set(p, Exit(Emit(r, "not_created"), 1))
    /\ UNCHANGED <<fs, dirs, fs0, dirs0>>

\* lines 66-68 and 80-83: except Exception: log, return False (exit 1)
cpw_Except(p) ==
    /\ At(p, "pdf_to_word", "except")
    /\ LET r == proc[p] IN
         IF issubclass(r.exc, "Exception")
         THEN Set(p, Exit(Emit(r, "error"), 1))
         ELSE Set(p, Crash(r))
    /\ UNCHANGED <<fs, dirs, fs0, dirs0>>

(***************************************************************************)
(* src/functions/pdf_to_word.py                                            *)
(***************************************************************************)
\* __main__: the argument check, lines 27-33
pdf_to_word_main(p) ==
    /\ At(p, "functions_pdf_to_word", "main")
    /\ LET r == proc[p] IN
         IF ~ArgcOK(r.argv)
         THEN Set(p, Exit(Emit(r, "usage"), 1))
         ELSE Set(p, [r EXCEPT !.input = r.argv[1], !.output = r.argv[2],
                               !.pc = "open"])
    /\ UNCHANGED <<fs, dirs, fs0, dirs0>>

\* lines 6-7: cv = Converter(pdf_path)
ptw_Open(p) ==
    /\ At(p, "functions_pdf_to_word", "open")
    /\ \E ok \in BOOLEAN :
         /\ ConverterOpens(fs, dirs, proc[p].input, ok)
         /\ LET r == Did(Emit(proc[p], "stage1"), "open") IN
              IF ok THEN Set(p, [r EXCEPT !.cv = "open", !.pc = "progress"])
                    ELSE Set(p, Raise(r, "LibraryError"))
    /\ UNCHANGED <<fs, dirs, fs0, dirs0>>

\* lines 9-14: the placeholder page loop prints num_pages lines
ptw_Progress(p) ==
    /\ At(p, "functions_pdf_to_word", "progress")
    /\ Set(p, [Emit(proc[p], "stage2") EXCEPT !.pages = num_pages, !.pc = "convert"])
    /\ UNCHANGED <<fs, dirs, fs0, dirs0>>

\* lines 16-17: cv.convert(docx_path, start=0, end=None)
ptw_Convert(p) ==
    /\ At(p, "functions_pdf_to_word", "convert")
    /\ \E o \in ConvertOutcomes(dirs, proc[p].output) :
         LET r == Did(Emit(proc[p], "stage3"), "convert") IN
           CASE o = "wrote" ->
                  /\ fs' = write(fs, r.output, Generated(r.input))
                  /\ Set(p, [r EXCEPT !.wrote = TRUE, !.pc = "close"])
             [] o = "nothing" ->
                  /\ fs' = fs
                  /\ Set(p, Goto(r, "close"))
             [] o = "raise" ->
                  /\ fs' = fs
                  /\ Set(p, Raise(r, "LibraryError"))
    /\ UNCHANGED <<dirs, fs0, dirs0>>

\* lines 19-21: cv.close(), print Success, fall off the end (exit 0)
ptw_Close(p) ==
    /\ At(p, "functions_pdf_to_word", "close")
    /\ Set(p, Exit([Emit(Emit(Did(proc[p], "close"), "stage4"), "success")
                      EXCEPT !.cv = "closed"], 0))
    /\ UNCHANGED <<fs, dirs, fs0, dirs0>>

\* lines 22-24: except Exception: print Error, sys.exit(1)
ptw_Except(p) ==
    /\ At(p, "functions_pdf_to_word", "except")
    /\ LET r == proc[p] IN
         IF issubclass(r.exc, "Exception")
         THEN Set(p, Exit(Emit(r, "error"), 1))
         ELSE Set(p, Crash(r))
    /\ UNCHANGED <<fs, dirs, fs0, dirs0>>

(***************************************************************************)
(* src/functions/word_to_pdf.py                                            *)
(***************************************************************************)
\* the executable check left out: the script goes on to the subprocess
libreoffice_missing_unchecked(f, d) == FALSE

\* line 9: not os.path.exists(libreoffice_path)
libreoffice_missing(f, d) == ~exists(f, d, libreoffice_path)

\* line 26: the path at which the script looks for the tool's output
generated_pdf(input_path, output_path) ==
    join(dirname(output_path), replace(basename(input_path), DotDocx, DotPdf))

\* a handler written for the script's own "raise Exception(...)" only, which
\* lets the subprocess module's exceptions through
convert_word_to_pdf_catches_own(k) == k = "Exception"

\* line 33: except Exception catches the classes derived from Exception
convert_word_to_pdf_catches(k) == issubclass(k, "Exception")

\* __main__: the argument check, lines 38-44
word_to_pdf_main(p) ==
    /\ At(p, "word_to_pdf", "main")
    /\ LET r == proc[p] IN
         IF ~ArgcOK(r.argv)
         THEN Set(p, Exit(Emit(r, "usage"), 1))
         ELSE Set(p, [r EXCEPT !.input = r.argv[1], !.output = r.argv[2],
                               !.pc = "check_libreoffice"])
    /\ UNCHANGED <<fs, dirs, fs0, dirs0>>

\* lines 8-10: raise Exception("LibreOffice not found")
cwp_CheckLibreOffice(p) ==
    /\ At(p, "word_to_pdf", "check_libreoffice")
    /\ LET r == Did(proc[p], "exists") IN
         IF libreoffice_missing(fs, dirs)
         THEN Set(p, Raise(r, "Exception"))
         ELSE Set(p, Goto(r, "subprocess"))
    /\ UNCHANGED <<fs, dirs, fs0, dirs0>>

\* lines 13-20: subprocess.run(command, ..., timeout=240).  The tool runs for
\* some time; past the timeout TimeoutExpired is raised.  Otherwise it returns a
\* status, and on status 0 it may have written its auto-named file, which it can
\* do only from an existing input into an existing directory.
cwp_Subprocess(p) ==
    /\ At(p, "word_to_pdf", "subprocess")
    /\ \E elapsed \in {SubprocessTimeout, SubprocessTimeout + 1},
          rc \in {0, 1}, w \in BOOLEAN :
         LET r      == Did(proc[p], "subprocess")
             outdir == dirname(r.output)
         IN  IF elapsed > SubprocessTimeout
             THEN /\ rc = 0 /\ ~w
                  /\ fs' = fs
                  /\ Set(p, Raise(r, "TimeoutExpired"))
             ELSE /\ w => (rc = 0 /\ r.input \in DOMAIN fs /\ outdir \in dirs)
                  /\ fs' = IF w THEN write(fs, soffice_output(r.input, outdir),
                                           Generated(r.input))
                                ELSE fs
                  /\ Set(p, [r EXCEPT !.returncode = rc, !.wrote = w,
                                      !.pc = "check_return"])
    /\ UNCHANGED <<dirs, fs0, dirs0>>

\* lines 22-23: raise Exception("LibreOffice failed: ...")
cwp_CheckReturn(p) ==
    /\ At(p, "word_to_pdf", "check_return")
    /\ LET r == proc[p] IN
         IF r.returncode # 0
         THEN Set(p, Raise(r, "Exception"))
         ELSE Set(p, Goto(r, "check_generated"))
    /\ UNCHANGED <<fs, dirs, fs0, dirs0>>

\* lines 26-28: raise Exception("Output PDF not created")
cwp_CheckGenerated(p) ==
    /\ At(p, "word_to_pdf", "check_generated")
    /\ LET r == Did(proc[p], "exists") IN
         IF ~exists(fs, dirs, generated_pdf(r.input, r.output))
         THEN Set(p, Raise(r, "Exception"))
         ELSE Set(p, Goto(r, "rename"))
    /\ UNCHANGED <<fs, dirs, fs0, dirs0>>

\* line 31: os.rename(generated_pdf, output_path); the function returns and
\* the script falls off its end (exit 0).  A source that is gone by now raises
\* FileNotFoundError, an OSError.
cwp_Rename(p) ==
    /\ At(p, "word_to_pdf", "rename")
    /\ LET r   == Did(proc[p], "rename")
           src == generated_pdf(r.input, r.output)
       IN  IF src \in DOMAIN fs
           THEN /\ fs' = rename(fs, src, r.output)
                /\ Set(p, Exit(r, 0))
           ELSE /\ fs' = fs
                /\ Set(p, Raise(r, "OSError"))
    /\ UNCHANGED <<dirs, fs0, dirs0>>

\* lines 33-35: except Exception: print Error to stderr, sys.exit(1)
cwp_Except(p) ==
    /\ At(p, "word_to_pdf", "except")
    /\ LET r == proc[p] IN
         IF convert_word_to_pdf_catches(r.exc)
         THEN Set(p, Exit(Emit(r, "error"), 1))
         ELSE Set(p, Crash(r))
    /\ UNCHANGED <<fs, dirs, fs0, dirs0>>

(***************************************************************************)
(* Specifications                                                          *)
(***************************************************************************)
Next ==
    \/ \E p \in DOMAIN proc : main(p)
    \/ \E p \in DOMAIN proc : cpw_CheckInput(p)
    \/ \E p \in DOMAIN proc : cpw_MakeDirs(p)
    \/ \E p \in DOMAIN proc : cpw_Open(p)
    \/ \E p \in DOMAIN proc : cpw_GetPages(p)
    \/ \E p \in DOMAIN proc : cpw_Convert(p)
    \/ \E p \in DOMAIN proc : cpw_Close(p)
    \/ \E p \in DOMAIN proc : cpw_CheckOutput(p)
    \/ \E p \in DOMAIN proc : cpw_Except(p)
    \/ \E p \in DOMAIN proc : pdf_to_word_main(p)
    \/ \E p \in DOMAIN proc : ptw_Open(p)
    \/ \E p \in DOMAIN proc : ptw_Progress(p)
    \/ \E p \in DOMAIN proc : ptw_Convert(p)
    \/ \E p \in DOMAIN proc : ptw_Close(p)
    \/ \E p \in DOMAIN proc : ptw_Except(p)
    \/ \E p \in DOMAIN proc : word_to_pdf_main(p)
    \/ \E p \in DOMAIN proc : cwp_CheckLibreOffice(p)
    \/ \E p \in DOMAIN proc : cwp_Subprocess(p)
    \/ \E p \in DOMAIN proc : cwp_CheckReturn(p)
    \/ \E p \in DOMAIN proc : cwp_CheckGenerated(p)
    \/ \E p \in DOMAIN proc : cwp_Rename(p)
    \/ \E p \in DOMAIN proc : cwp_Except(p)

Spec == Init /\ [][Next]_vars

NextConc ==
    \/ \E p \in DOMAIN proc : word_to_pdf_main(p)
    \/ \E p \in DOMAIN proc : cwp_CheckLibreOffice(p)
    \/ \E p \in DOMAIN proc : cwp_Subprocess(p)
    \/ \E p \in DOMAIN proc : cwp_CheckReturn(p)
    \/ \E p \in DOMAIN proc : cwp_CheckGenerated(p)
    \/ \E p \in DOMAIN proc : cwp_Rename(p)
    \/ \E p \in DOMAIN proc : cwp_Except(p)

SpecConc == InitConc /\ [][NextConc]_vars

(***************************************************************************)
(* Properties                                                              *)
(***************************************************************************)
Done(p)    == proc[p].pc = "done"
Ran(p, op) == \E i \in 1..Len(proc[p].ops) : proc[p].ops[i] = op
IsW2P(p)   == proc[p].script = "word_to_pdf"
IsP2W(p)   == proc[p].script \in {"pdf_to_word", "functions_pdf_to_word"}

\* the entry at path q is what it was before the run
SameEntry(q) ==
    /\ q \in DOMAIN fs <=> q \in DOMAIN fs0
    /\ q \in DOMAIN fs => fs[q] = fs0[q]

\* C1: word_to_pdf, whatever the input's extension: if the executable exists and
\* the subprocess returns 0 having written <input base name>.pdf into
\* dirname(output_path), the run exits 0, output_path holds the PDF the tool
\* generated, and nothing is left at the auto-named path unless it is output_path.
C1_Claim ==
    \A p \in DOMAIN proc :
      LET r    == proc[p]
          auto == soffice_output(r.input, dirname(r.output))
      IN  (IsW2P(p) /\ Done(p) /\ r.returncode = 0 /\ r.wrote)
          => /\ r.exit = 0
             /\ r.output \in DOMAIN fs
             /\ fs[r.output] = Generated(r.input)
             /\ auto # r.output => auto \notin DOMAIN fs

\* C2: for an input path that does not exist, each of the three scripts, run
\* with two arguments, exits 1, leaves no file at output_path that was not
\* there before, and creates no directory.
C2_Claim ==
    \A p \in DOMAIN proc :
      LET r == proc[p] IN
        (Done(p) /\ Len(r.argv) = 2 /\ r.argv[1] \notin DOMAIN fs0)
        => /\ r.exit = 1
           /\ r.argv[2] \in DOMAIN fs => r.argv[2] \in DOMAIN fs0
           /\ dirs = dirs0

\* C3: both pdf_to_word scripts: exit code 0 only if a file exists at the output
\* path after convert has returned; if convert returns without raising and no
\* file exists at the output path, the run exits 1.
C3_Claim ==
    \A p \in DOMAIN proc :
      LET r == proc[p] IN
        (IsP2W(p) /\ Done(p))
        => /\ r.exit = 0 => (Ran(p, "convert") /\ r.output \in DOMAIN fs)
           /\ (Ran(p, "convert") /\ r.exc = "none" /\ r.output \notin DOMAIN fs)
                => r.exit = 1

\* C4: word_to_pdf: if nothing exists at the hardcoded executable path, the
\* subprocess is never started, no file is renamed, created or removed, and the
\* run exits 1.
C4_NoExecutableNoSubprocess ==
    \A p \in DOMAIN proc :
      (IsW2P(p) /\ libreoffice_path \notin DOMAIN fs0)
      => /\ ~Ran(p, "subprocess")
         /\ ~Ran(p, "rename")
         /\ fs = fs0
         /\ dirs = dirs0
         /\ Done(p) => proc[p].exit = 1

\* C4 witness: a two-argument word_to_pdf run that found no executable and
\* ended through the error handler
C4_Witness ==
    \E p \in DOMAIN proc :
      /\ IsW2P(p) /\ Done(p)
      /\ Len(proc[p].argv) = 2
      /\ libreoffice_path \notin DOMAIN fs0
      /\ proc[p].exc = "Exception"
      /\ proc[p].ops = <<"exists">>
      /\ proc[p].out = <<"error">>
      /\ proc[p].exit = 1

\* C5: each script, given other than exactly two arguments, prints the usage
\* message and exits 1 before any filesystem operation and before any call to
\* the conversion library or the subprocess.
C5_BadArgcUsageOnly ==
    \A p \in DOMAIN proc :
      LET r == proc[p] IN
        Len(r.argv) # 2
        => /\ r.ops = <<>>
           /\ r.cv = "none"
           /\ fs = fs0
           /\ dirs = dirs0
           /\ Done(p) => (r.exit = 1 /\ r.out = <<"usage">>)

\* C5 witness: a run given three arguments has ended with the usage message
C5_Witness ==
    \E p \in DOMAIN proc :
      /\ Len(proc[p].argv) = 3
      /\ Done(p)
      /\ proc[p].out = <<"usage">>
      /\ proc[p].exit = 1

\* C6: word_to_pdf: when the subprocess returns a non-zero status, or returns 0
\* with no file at the tool's auto-named path, the run exits 1 without a rename
\* and the entry at output_path is what it was before the run; the run exits 0
\* only where the rename was performed.
C6_Claim ==
    \A p \in DOMAIN proc :
      LET r    == proc[p]
          auto == soffice_output(r.input, dirname(r.output))
      IN  (IsW2P(p) /\ Done(p))
          => /\ ( \/ r.returncode = 1
                  \/ r.returncode = 0 /\ ~r.wrote /\ auto \notin DOMAIN fs0 )
                => (r.exit = 1 /\ ~Ran(p, "rename") /\ SameEntry(r.output))
             /\ r.exit = 0 => Ran(p, "rename")

\* C7 as claimed: a subprocess timeout is not caught by the script's handler
\* and the run ends as an unhandled crash, not through "print error, exit 1".
C7_Original ==
    \A p \in DOMAIN proc :
      (IsW2P(p) /\ Done(p) /\ proc[p].exc = "TimeoutExpired")
      => (proc[p].uncaught /\ proc[p].out # <<"error">>)

\* C7 as amended: a subprocess timeout is caught by the script's
\* "except Exception" handler: the run prints the error and exits 1, the path
\* every other failure takes.
C7_TimeoutHandled ==
    \A p \in DOMAIN proc :
      (IsW2P(p) /\ Done(p) /\ proc[p].exc = "TimeoutExpired")
      => /\ ~proc[p].uncaught
         /\ proc[p].out = <<"error">>
         /\ proc[p].exit = 1
         /\ ~Ran(p, "rename")

\* C7 witness: a run whose subprocess timed out has ended
C7_Witness ==
    \E p \in DOMAIN proc :
      /\ IsW2P(p) /\ Done(p)
      /\ proc[p].exc = "TimeoutExpired"
      /\ proc[p].ops = <<"exists", "subprocess">>
      /\ proc[p].exit = 1

\* C8: two concurrent word_to_pdf runs on distinct inputs and distinct outputs:
\* under every interleaving, a run that exits 0 leaves at its own output_path
\* the PDF generated from its own input, and a run whose tool returned 0 having
\* written its file does not fail because of the other run.
C8_Claim ==
    \A p \in DOMAIN proc :
      LET r == proc[p] IN
        Done(p)
        => /\ r.exit = 0 => (r.output \in DOMAIN fs
                             /\ fs[r.output] = Generated(r.input))
           /\ (r.returncode = 0 /\ r.wrote) => r.exit = 0

LibraryCall(op) == op \in {"open", "convert", "close"}

\* C9: both pdf_to_word scripts: the library calls follow open, convert, close,
\* and every converter that was opened is closed before the process exits, also
\* when get_pages or convert raises.
C9_Claim ==
    \A p \in DOMAIN proc :
      LET calls == SelectSeq(proc[p].ops, LibraryCall) IN
        IsP2W(p)
        => /\ calls = SubSeq(<<"open", "convert", "close">>, 1, Len(calls))
           /\ Done(p) => proc[p].cv # "open"

\* C10: word_to_pdf never moves or removes its input: for an output path other
\* than the input path, after any run the original document is still at
\* input_path, and the only file renamed is the PDF the tool generated.
C10_Claim ==
    \A p \in DOMAIN proc :
      LET r == proc[p] IN
        (IsW2P(p) /\ Done(p) /\ Len(r.argv) = 2 /\ r.argv[1] # r.argv[2])
        => /\ r.argv[1] \in DOMAIN fs0
                => (r.argv[1] \in DOMAIN fs /\ fs[r.argv[1]] = fs0[r.argv[1]])
           /\ Ran(p, "rename")
                => (r.output \in DOMAIN fs /\ fs[r.output] = Generated(r.input))

====
